---- MODULE Spec2Model ----
(***************************************************************************)
(* Model of src/bin/parserV5.rs: the TDX quote decoder (parse_quote,       *)
(* parse_td_quote_body) and the TD-attributes bit decomposer               *)
(* (extract_tdattributes_info).                                            *)
(*                                                                         *)
(* Representation.  A byte buffer is a sequence of 0..255; the byte at     *)
(* offset i is data[i+1].  A u16 is a natural number.  A u32 or u64 is a   *)
(* bit vector, a function from bit index (0 = least significant) to 0..1,  *)
(* because the values reach 2^32-1 and 2^64-1.                             *)
(***************************************************************************)
EXTENDS Integers, Sequences, FiniteSets, TLC

VARIABLES data, pos, pc, fields, outcome, reads, quote, info

vars == <<data, pos, pc, fields, outcome, reads, quote, info>>

----------------------------------------------------------------------------
(* Bounds of the explored inputs *)

\* Largest number of bytes that follow the last byte parse_quote reads.
MaxTrailing == 2

----------------------------------------------------------------------------
(* Bit vectors *)

\* The w-bit vector of the literal n (n < 2^31).
LitBits(w, n) ==
    [i \in 0..(w - 1) |-> IF i >= 31 THEN 0 ELSE (n \div (2 ^ i)) % 2]

\* u32::from_le_bytes / u64::from_le_bytes / LittleEndian::read_u32:
\* byte k of the array holds bits 8k .. 8k+7 of the value.
from_le_bytes(bytes) ==
    [i \in 0..(8 * Len(bytes) - 1) |-> (bytes[(i \div 8) + 1] \div (2 ^ (i % 8))) % 2]

\* v >> k on a fixed-width unsigned value.
Shr(v, k) ==
    LET w == Cardinality(DOMAIN v)
    IN  [i \in DOMAIN v |-> IF i + k < w THEN v[i + k] ELSE 0]

\* v & m on two values of the same width.
BitAnd(v, m) == [i \in DOMAIN v |-> v[i] * m[i]]

RECURSIVE Horner(_, _)
Horner(v, i) == IF i \notin DOMAIN v THEN 0 ELSE v[i] + 2 * Horner(v, i + 1)

\* The number a bit vector denotes (the value must be below 2^31).
ToNat(v) == Horner(v, 0)

\* Variant of LE16: the two bytes taken in big-endian order.
BE16(buf) == 256 * buf[1] + buf[2]

\* LittleEndian::read_u16 of a 2-byte array.
LE16(buf) == buf[1] + 256 * buf[2]

----------------------------------------------------------------------------
(* The layout the decoder walks *)

\* struct TDQuoteBody: the declared array widths.
TDQuoteBody ==
    [tee_tcb_svn |-> 16, mrseam |-> 48, mrsignerseam |-> 48,
     seamattributes |-> 8, tdattributes |-> 8, xfam |-> 8,
     mrtd |-> 48, mrconfigid |-> 48, mrowner |-> 48, mrownerconfig |-> 48,
     rtmr0 |-> 48, rtmr1 |-> 48, rtmr2 |-> 48, rtmr3 |-> 48,
     reportdata |-> 64, tee_tcb_svn_2 |-> 16, mrservicetd |-> 48]

\* Variant of HeaderReads: user_data read before qe_vendor_id.
HeaderReadsSwapped ==
    << [name |-> "version",              kind |-> "u16",   width |-> 2],
       [name |-> "attestation_key_type", kind |-> "u16",   width |-> 2],
       [name |-> "tee_type",             kind |-> "tee",   width |-> 4],
       [name |-> "reserved1",            kind |-> "bytes", width |-> 2],
       [name |-> "reserved2",            kind |-> "bytes", width |-> 2],
       [name |-> "user_data",            kind |-> "bytes", width |-> 20],
       [name |-> "qe_vendor_id",         kind |-> "uuid",  width |-> 16] >>

\* The reads of parse_quote that build QuoteHeader, in evaluation order.
HeaderReads ==
    << [name |-> "version",              kind |-> "u16",   width |-> 2],
       [name |-> "attestation_key_type", kind |-> "u16",   width |-> 2],
       [name |-> "tee_type",             kind |-> "tee",   width |-> 4],
       [name |-> "reserved1",            kind |-> "bytes", width |-> 2],
       [name |-> "reserved2",            kind |-> "bytes", width |-> 2],
       [name |-> "qe_vendor_id",         kind |-> "uuid",  width |-> 16],
       [name |-> "user_data",            kind |-> "bytes", width |-> 20] >>

\* The reads of parse_quote that build QuoteBody before the TD body.
BodyReads ==
    << [name |-> "td_quote_body_type",   kind |-> "u16",   width |-> 2],
       [name |-> "size",                 kind |-> "u32",   width |-> 4] >>

\* Variant of TdBodyReads: mrownerconfig is not read.
TdBodyReadsShort ==
    << [name |-> "tee_tcb_svn",    kind |-> "body", width |-> 16],
       [name |-> "mrseam",         kind |-> "body", width |-> 48],
       [name |-> "mrsignerseam",   kind |-> "body", width |-> 48],
       [name |-> "seamattributes", kind |-> "body", width |-> 8],
       [name |-> "tdattributes",   kind |-> "body", width |-> 8],
       [name |-> "xfam",           kind |-> "body", width |-> 8],
       [name |-> "mrtd",           kind |-> "body", width |-> 48],
       [name |-> "mrconfigid",     kind |-> "body", width |-> 48],
       [name |-> "mrowner",        kind |-> "body", width |-> 48],
       [name |-> "rtmr0",          kind |-> "body", width |-> 48],
       [name |-> "rtmr1",          kind |-> "body", width |-> 48],
       [name |-> "rtmr2",          kind |-> "body", width |-> 48],
       [name |-> "rtmr3",          kind |-> "body", width |-> 48],
       [name |-> "reportdata",     kind |-> "body", width |-> 64],
       [name |-> "tee_tcb_svn_2",  kind |-> "body", width |-> 16],
       [name |-> "mrservicetd",    kind |-> "body", width |-> 48] >>

\* The reads of parse_td_quote_body, in evaluation order: let mut buf = [0; n].
TdBodyReads ==
    << [name |-> "tee_tcb_svn",    kind |-> "body", width |-> 16],
       [name |-> "mrseam",         kind |-> "body", width |-> 48],
       [name |-> "mrsignerseam",   kind |-> "body", width |-> 48],
       [name |-> "seamattributes", kind |-> "body", width |-> 8],
       [name |-> "tdattributes",   kind |-> "body", width |-> 8],
       [name |-> "xfam",           kind |-> "body", width |-> 8],
       [name |-> "mrtd",           kind |-> "body", width |-> 48],
       [name |-> "mrconfigid",     kind |-> "body", width |-> 48],
       [name |-> "mrowner",        kind |-> "body", width |-> 48],
       [name |-> "mrownerconfig",  kind |-> "body", width |-> 48],
       [name |-> "rtmr0",          kind |-> "body", width |-> 48],
       [name |-> "rtmr1",          kind |-> "body", width |-> 48],
       [name |-> "rtmr2",          kind |-> "body", width |-> 48],
       [name |-> "rtmr3",          kind |-> "body", width |-> 48],
       [name |-> "reportdata",     kind |-> "body", width |-> 64],
       [name |-> "tee_tcb_svn_2",  kind |-> "body", width |-> 16],
       [name |-> "mrservicetd",    kind |-> "body", width |-> 48] >>

\* Every read of one parse_quote call, in program order.
Layout == HeaderReads \o BodyReads \o TdBodyReads

----------------------------------------------------------------------------
(* The cursor *)

\* Variant of ReadExact: the bound check is off by one.
ReadExactStrict(d, p, n) ==
    IF p + n < Len(d)
    THEN [ok |-> TRUE,  buf |-> SubSeq(d, p + 1, p + n), pos |-> p + n]
    ELSE [ok |-> FALSE, buf |-> <<>>,                    pos |-> Len(d)]

\* Cursor<&[u8]>::read_exact of n bytes at position p: all n bytes or an
\* UnexpectedEof error that copies nothing and leaves the cursor at the end
\* of the buffer.
ReadExact(d, p, n) ==
    IF p + n <= Len(d)
    THEN [ok |-> TRUE,  buf |-> SubSeq(d, p + 1, p + n), pos |-> p + n]
    ELSE [ok |-> FALSE, buf |-> <<>>,                    pos |-> Len(d)]

\* Variant of TEEType: an unknown value falls through to SGX.
TEETypeDefault(v) ==
    IF v = LitBits(32, 129) THEN "TDX" ELSE "SGX"

\* match on the u32 read for tee_type.
TEEType(v) ==
    IF v = LitBits(32, 0) THEN "SGX"
    ELSE IF v = LitBits(32, 129) THEN "TDX"
    ELSE "panic"

\* The value a read stores in its field, from the bytes it consumed.
Decode(kind, buf) ==
    CASE kind = "u16" -> LE16(buf)
      [] kind = "u32" -> from_le_bytes(buf)
      [] kind = "tee" -> TEEType(from_le_bytes(buf))
      [] OTHER        -> buf

\* Variant of ReadField: the result of read_exact is dropped, the zeroed buf kept.
ReadFieldIgnoreErr(st, f) ==
    LET r == ReadExact(st.data, st.pos, f.width)
    IN  IF ~r.ok
        THEN [st EXCEPT !.pos = r.pos,
                        !.pc = @ + 1,
                        !.fields = [n \in (DOMAIN @) \cup {f.name} |->
                                      IF n = f.name
                                      THEN Decode(f.kind, [i \in 1..f.width |-> 0])
                                      ELSE @[n]]]
        ELSE LET v    == Decode(f.kind, r.buf)
                 read == [name |-> f.name, offset |-> st.pos, width |-> f.width]
             IN  IF f.kind = "tee" /\ v = "panic"
                 THEN [st EXCEPT !.pos = r.pos,
                                 !.reads = Append(@, read),
                                 !.outcome = "InvalidTeeType"]
                 ELSE [st EXCEPT !.pos = r.pos,
                                 !.pc = @ + 1,
                                 !.reads = Append(@, read),
                                 !.fields = [n \in (DOMAIN @) \cup {f.name} |->
                                               IF n = f.name THEN v ELSE @[n]]]

\* Variant of ReadField: the declared size must equal the fixed body length.
ReadFieldSizeChecked(st, f) ==
    LET r == ReadExact(st.data, st.pos, f.width)
    IN  IF ~r.ok
        THEN [st EXCEPT !.pos = r.pos,
                        !.outcome = "UnexpectedEof"]
        ELSE LET v    == Decode(f.kind, r.buf)
                 read == [name |-> f.name, offset |-> st.pos, width |-> f.width]
             IN  IF f.name = "size" /\ v # LitBits(32, 648)
                 THEN [st EXCEPT !.pos = r.pos,
                                 !.reads = Append(@, read),
                                 !.outcome = "UnexpectedEof"]
                 ELSE IF f.kind = "tee" /\ v = "panic"
                 THEN [st EXCEPT !.pos = r.pos,
                                 !.reads = Append(@, read),
                                 !.outcome = "InvalidTeeType"]
                 ELSE [st EXCEPT !.pos = r.pos,
                                 !.pc = @ + 1,
                                 !.reads = Append(@, read),
                                 !.fields = [n \in (DOMAIN @) \cup {f.name} |->
                                               IF n = f.name THEN v ELSE @[n]]]

\* One field read and its .unwrap(): st is the decoder state
\* [data, pos, pc, fields, outcome, reads] and f an entry of Layout.
ReadField(st, f) ==
    LET r == ReadExact(st.data, st.pos, f.width)
    IN  IF ~r.ok
        THEN [st EXCEPT !.pos = r.pos,
                        !.outcome = "UnexpectedEof"]
        ELSE LET v    == Decode(f.kind, r.buf)
                 read == [name |-> f.name, offset |-> st.pos, width |-> f.width]
             IN  IF f.kind = "tee" /\ v = "panic"
                 THEN [st EXCEPT !.pos = r.pos,
                                 !.reads = Append(@, read),
                                 !.outcome = "InvalidTeeType"]
                 ELSE [st EXCEPT !.pos = r.pos,
                                 !.pc = @ + 1,
                                 !.reads = Append(@, read),
                                 !.fields = [n \in (DOMAIN @) \cup {f.name} |->
                                               IF n = f.name THEN v ELSE @[n]]]

\* Quote { header, body } from the values read.
MakeQuote(fs) ==
    [header |-> [n \in {HeaderReads[i].name : i \in 1..Len(HeaderReads)} |-> fs[n]],
     body   |-> [td_quote_body_type |-> fs["td_quote_body_type"],
                 size               |-> fs["size"],
                 td_quote_body      |->
                     [n \in {TdBodyReads[i].name : i \in 1..Len(TdBodyReads)} |-> fs[n]]]]

\* No Quote was returned (parse_quote panicked or has not returned yet).
NoQuote == [none |-> TRUE]
\* extract_tdattributes_info has not been called.
NoInfo  == [none |-> TRUE]
NoFields == [n \in {} |-> 0]

\* Cursor::new(data) at the start of parse_quote.
Start(d) ==
    [data |-> d, pos |-> 0, pc |-> 1, fields |-> NoFields,
     outcome |-> "running", reads |-> <<>>]

RECURSIVE Run(_)
Run(st) ==
    IF st.outcome # "running" THEN st
    ELSE IF st.pc > Len(Layout) THEN [st EXCEPT !.outcome = "ok"]
    ELSE Run(ReadField(st, Layout[st.pc]))

\* parse_quote as a function of the buffer: the outcome, the final cursor
\* position, the reads performed and the Quote returned (if any).
parse_quote(d) ==
    LET st == Run(Start(d))
    IN  [outcome |-> st.outcome, pos |-> st.pos, reads |-> st.reads,
         quote   |-> IF st.outcome = "ok" THEN MakeQuote(st.fields) ELSE NoQuote]

----------------------------------------------------------------------------
(* The TD-attributes decomposer *)

\* Variant of extract_tdattributes_info: SEPT_VE_DISABLE taken from bit 28.
extract_tdattributes_info_bit28(tdattributes) ==
    LET tud   == from_le_bytes(<<tdattributes[1]>>)
        sec   == from_le_bytes(<<0, tdattributes[2], tdattributes[3], tdattributes[4]>>)
        other == from_le_bytes(<<0, 0, 0, 0, tdattributes[5], tdattributes[6],
                                 tdattributes[7], tdattributes[8]>>)
    IN  [DEBUG           |-> IF ToNat(BitAnd(tud, LitBits(8, 1))) # 0
                             THEN "True" ELSE "False",
         TUD_RESERVED    |-> ToNat(BitAnd(Shr(tud, 1), LitBits(8, 127))),
         SEC_RESERVED    |-> ToNat(BitAnd(Shr(sec, 8), LitBits(32, 1048575))),
         SEPT_VE_DISABLE |-> ToNat(BitAnd(Shr(sec, 28), LitBits(32, 1))),
         PKS             |-> ToNat(BitAnd(Shr(sec, 30), LitBits(32, 1))),
         KL              |-> ToNat(BitAnd(Shr(sec, 31), LitBits(32, 1))),
         OTHER_RESERVED  |-> ToNat(BitAnd(Shr(other, 32), LitBits(64, 2147483647))),
         PERFMON         |-> ToNat(BitAnd(Shr(other, 63), LitBits(64, 1)))]

\* extract_tdattributes_info: the values interpolated into the returned text.
extract_tdattributes_info(tdattributes) ==
    LET tud   == from_le_bytes(<<tdattributes[1]>>)
        sec   == from_le_bytes(<<0, tdattributes[2], tdattributes[3], tdattributes[4]>>)
        other == from_le_bytes(<<0, 0, 0, 0, tdattributes[5], tdattributes[6],
                                 tdattributes[7], tdattributes[8]>>)
    IN  [DEBUG           |-> IF ToNat(BitAnd(tud, LitBits(8, 1))) # 0
                             THEN "True" ELSE "False",
         TUD_RESERVED    |-> ToNat(BitAnd(Shr(tud, 1), LitBits(8, 127))),
         SEC_RESERVED    |-> ToNat(BitAnd(Shr(sec, 8), LitBits(32, 1048575))),
         SEPT_VE_DISABLE |-> ToNat(BitAnd(Shr(sec, 27), LitBits(32, 1))),
         PKS             |-> ToNat(BitAnd(Shr(sec, 30), LitBits(32, 1))),
         KL              |-> ToNat(BitAnd(Shr(sec, 31), LitBits(32, 1))),
         OTHER_RESERVED  |-> ToNat(BitAnd(Shr(other, 32), LitBits(64, 2147483647))),
         PERFMON         |-> ToNat(BitAnd(Shr(other, 63), LitBits(64, 1)))]

----------------------------------------------------------------------------
(* Inputs *)

\* Bytes the decoder consumes on success: the widths of all reads.
RECURSIVE SumWidths(_, _)
SumWidths(s, i) == IF i > Len(s) THEN 0 ELSE s[i].width + SumWidths(s, i + 1)

TotalRead == SumWidths(Layout, 1)

\* Byte patterns <<seed, step>>: the byte at offset i is (seed + step*i) % 256.
Fills == { <<1, 3>>, <<250, 7>> }

\* Contents of the four TEE-type bytes at offsets 4..7.
TeeWords == { <<0, 0, 0, 0>>, <<129, 0, 0, 0>>, <<0, 0, 0, 129>>,
              <<129, 1, 0, 0>>, <<255, 255, 255, 255>> }

Buffer(len, fill, tee) ==
    [i \in 1..len |-> IF i - 1 \in 4..7 THEN tee[i - 4]
                      ELSE (fill[1] + fill[2] * (i - 1)) % 256]

Inputs ==
    { Buffer(len, fill, tee) : len \in 0..(TotalRead + MaxTrailing),
                               fill \in Fills, tee \in TeeWords }

----------------------------------------------------------------------------
(* The decoder as a state machine *)

Init ==
    /\ data \in Inputs
    /\ pos = 0
    /\ pc = 1
    /\ fields = NoFields
    /\ outcome = "running"
    /\ reads = <<>>
    /\ quote = NoQuote
    /\ info = NoInfo

Cur == [data |-> data, pos |-> pos, pc |-> pc, fields |-> fields,
        outcome |-> outcome, reads |-> reads]

\* The next read of the given kind, with its unwrap.
Read(kind) ==
    /\ outcome = "running"
    /\ pc <= Len(Layout)
    /\ Layout[pc].kind = kind
    /\ LET st == ReadField(Cur, Layout[pc])
       IN  /\ pos' = st.pos
           /\ pc' = st.pc
           /\ fields' = st.fields
           /\ outcome' = st.outcome
           /\ reads' = st.reads
    /\ UNCHANGED <<data, quote, info>>

\* cursor.read_u16::<LittleEndian>().unwrap()
ReadU16 == Read("u16")

\* match cursor.read_u32::<LittleEndian>().unwrap() { ... }
ReadTeeType == Read("tee")

\* cursor.read_u32::<LittleEndian>().unwrap()
ReadU32 == Read("u32")

\* cursor.read_exact(&mut buf).unwrap(); buf   (header arrays)
ReadBytes == Read("bytes")

\* cursor.read_exact(&mut buf).unwrap(); Uuid::from_bytes(buf)
ReadUuid == Read("uuid")

\* cursor.read_exact(&mut buf).unwrap(); buf   (parse_td_quote_body)
ReadTdBody == Read("body")

\* Quote { header, body }
ReturnQuote ==
    /\ outcome = "running"
    /\ pc > Len(Layout)
    /\ outcome' = "ok"
    /\ quote' = MakeQuote(fields)
    /\ UNCHANGED <<data, pos, pc, fields, reads, info>>

\* main: extract_tdattributes_info(quote.body.td_quote_body.tdattributes)
PrintTdAttributes ==
    /\ quote # NoQuote
    /\ info = NoInfo
    /\ info' = extract_tdattributes_info(quote.body.td_quote_body.tdattributes)
    /\ UNCHANGED <<data, pos, pc, fields, outcome, reads, quote>>

Next ==
    \/ ReadU16
    \/ ReadTeeType
    \/ ReadU32
    \/ ReadBytes
    \/ ReadUuid
    \/ ReadTdBody
    \/ ReturnQuote
    \/ PrintTdAttributes

Spec == Init /\ [][Next]_vars

Done == outcome # "running"

TypeOK ==
    /\ pos \in 0..Len(data)
    /\ pc \in 1..(Len(Layout) + 1)
    /\ outcome \in {"running", "ok", "UnexpectedEof", "InvalidTeeType"}
    /\ (quote # NoQuote) <=> (outcome = "ok")
    /\ Done => /\ parse_quote(data).outcome = outcome
               /\ parse_quote(data).pos = pos
               /\ parse_quote(data).quote = quote

----------------------------------------------------------------------------
(* The decomposer applied to chosen TD-attributes values *)

\* d with the bytes at offsets off .. off+Len(bytes)-1 replaced (where present).
WithBytes(d, off, bytes) ==
    [i \in 1..Len(d) |-> IF i - 1 >= off /\ i - 1 < off + Len(bytes)
                         THEN bytes[i - off] ELSE d[i]]

\* The 8-byte value with only bit k set, and the one with only bit k clear.
OnlyBit(k)   == [i \in 1..8 |-> IF i - 1 = k \div 8 THEN 2 ^ (k % 8) ELSE 0]
AllButBit(k) == [i \in 1..8 |-> IF i - 1 = k \div 8 THEN 255 - 2 ^ (k % 8) ELSE 255]

AttrInputs ==
    { [i \in 1..8 |-> 0], [i \in 1..8 |-> 255] }
      \cup { OnlyBit(k) : k \in 0..63 } \cup { AllButBit(k) : k \in 0..63 }

\* main after parse_quote returned a quote whose TD attributes are a.
InitAttr ==
    \E a \in AttrInputs :
        LET d  == WithBytes(Buffer(TotalRead, <<1, 3>>, <<129, 0, 0, 0>>), 174, a)
            st == Run(Start(d))
        IN  /\ data = d
            /\ pos = st.pos
            /\ pc = st.pc
            /\ fields = st.fields
            /\ outcome = st.outcome
            /\ reads = st.reads
            /\ quote = MakeQuote(st.fields)
            /\ info = NoInfo

NextAttr == PrintTdAttributes

SpecTdAttributes == InitAttr /\ [][NextAttr]_vars

----------------------------------------------------------------------------
(* Vocabulary of the properties *)

\* Bit k of the little-endian value held in the byte array a.
Bit(a, k) == (a[(k \div 8) + 1] \div (2 ^ (k % 8))) % 2

\* The n-bit integer at bits lo .. lo+n-1 of a.
RECURSIVE BitField(_, _, _)
BitField(a, lo, n) == IF n = 0 THEN 0 ELSE Bit(a, lo) + 2 * BitField(a, lo + 1, n - 1)

\* The n bytes of d at offset off.
Slice(d, off, n) == SubSeq(d, off + 1, off + n)

\* The TD attributes handed to extract_tdattributes_info.
Attr == quote.body.td_quote_body.tdattributes

Flag(b) == IF b = 1 THEN "True" ELSE "False"

\* The buffer holds a TEE-type field and it is 0x00000000 or 0x00000081.
TeeKnown ==
    /\ Len(data) >= 8
    /\ Slice(data, 4, 4) \in { <<0, 0, 0, 0>>, <<129, 0, 0, 0>> }

TeeUnknown ==
    /\ Len(data) >= 8
    /\ Slice(data, 4, 4) \notin { <<0, 0, 0, 0>>, <<129, 0, 0, 0>> }

\* Every read so far lies inside the buffer.
ReadsInBounds == \A i \in 1..Len(reads) : reads[i].offset + reads[i].width <= Len(data)

\* Every field of the Quote q is the little-endian integer or the verbatim
\* slice of d at the field's offset in the no-padding layout.
FieldsMatch(q, d) ==
    /\ q.header.version = d[1] + 256 * d[2]
    /\ q.header.attestation_key_type = d[3] + 256 * d[4]
    /\ q.header.tee_type = (IF Slice(d, 4, 4) = <<0, 0, 0, 0>> THEN "SGX" ELSE "TDX")
    /\ q.header.reserved1 = Slice(d, 8, 2)
    /\ q.header.reserved2 = Slice(d, 10, 2)
    /\ q.header.qe_vendor_id = Slice(d, 12, 16)
    /\ q.header.user_data = Slice(d, 28, 20)
    /\ q.body.td_quote_body_type = d[49] + 256 * d[50]
    /\ \A k \in 0..31 : q.body.size[k] = Bit(Slice(d, 50, 4), k)
    /\ q.body.td_quote_body.tee_tcb_svn = Slice(d, 54, 16)
    /\ q.body.td_quote_body.mrseam = Slice(d, 70, 48)
    /\ q.body.td_quote_body.mrsignerseam = Slice(d, 118, 48)
    /\ q.body.td_quote_body.seamattributes = Slice(d, 166, 8)
    /\ q.body.td_quote_body.tdattributes = Slice(d, 174, 8)
    /\ q.body.td_quote_body.xfam = Slice(d, 182, 8)
    /\ q.body.td_quote_body.mrtd = Slice(d, 190, 48)
    /\ q.body.td_quote_body.mrconfigid = Slice(d, 238, 48)
    /\ q.body.td_quote_body.mrowner = Slice(d, 286, 48)
    /\ q.body.td_quote_body.mrownerconfig = Slice(d, 334, 48)
    /\ q.body.td_quote_body.rtmr0 = Slice(d, 382, 48)
    /\ q.body.td_quote_body.rtmr1 = Slice(d, 430, 48)
    /\ q.body.td_quote_body.rtmr2 = Slice(d, 478, 48)
    /\ q.body.td_quote_body.rtmr3 = Slice(d, 526, 48)
    /\ q.body.td_quote_body.reportdata = Slice(d, 574, 64)
    /\ q.body.td_quote_body.tee_tcb_svn_2 = Slice(d, 638, 16)
    /\ q.body.td_quote_body.mrservicetd = Slice(d, 654, 48)

----------------------------------------------------------------------------
(* Properties of extract_tdattributes_info *)

\* C5: for every 8-byte input, DEBUG = bit 0, TUD RESERVED = bits 1-7,
\* SEC RESERVED = bits 8-26 (19 bits), SEPT_VE_DISABLE = bit 27, PKS = bit 30,
\* KL = bit 31, OTHER RESERVED = bits 32-62, PERFMON = bit 63.
C5_NamedBitRanges ==
    (info # NoInfo) =>
        /\ info.DEBUG = Flag(Bit(Attr, 0))
        /\ info.TUD_RESERVED = BitField(Attr, 1, 7)
        /\ info.SEC_RESERVED = BitField(Attr, 8, 19)
        /\ info.SEPT_VE_DISABLE = Bit(Attr, 27)
        /\ info.PKS = Bit(Attr, 30)
        /\ info.KL = Bit(Attr, 31)
        /\ info.OTHER_RESERVED = BitField(Attr, 32, 31)
        /\ info.PERFMON = Bit(Attr, 63)

\* C6: the all-zero input yields every flag false and every reserved value 0;
\* the all-ones input yields every flag true and the reserved values 127,
\* 524287 and 2147483647.
C6_Extremes ==
    (info # NoInfo) =>
        /\ (Attr = [i \in 1..8 |-> 0]) =>
               info = [DEBUG |-> "False", TUD_RESERVED |-> 0, SEC_RESERVED |-> 0,
                       SEPT_VE_DISABLE |-> 0, PKS |-> 0, KL |-> 0,
                       OTHER_RESERVED |-> 0, PERFMON |-> 0]
        /\ (Attr = [i \in 1..8 |-> 255]) =>
               info = [DEBUG |-> "True", TUD_RESERVED |-> 127, SEC_RESERVED |-> 524287,
                       SEPT_VE_DISABLE |-> 1, PKS |-> 1, KL |-> 1,
                       OTHER_RESERVED |-> 2147483647, PERFMON |-> 1]

\* The inputs that differ from a at most in bits 28 and 29.
GapVariants(a) ==
    { [a EXCEPT ![4] = (a[4] % 16) + 16 * g + 64 * (a[4] \div 64)] : g \in 0..3 }

\* C9: two inputs that differ only in bits 28-29 give identical values for
\* every named field.
C9_GapBitsIgnored ==
    (info # NoInfo) =>
        \A alt \in GapVariants(Attr) : extract_tdattributes_info(alt) = info

C9_Witness ==
    /\ info # NoInfo
    /\ Bit(Attr, 28) = 1
    /\ Bit(Attr, 29) = 0
    /\ info.SEPT_VE_DISABLE = 1

----------------------------------------------------------------------------
(* Properties of parse_quote *)

\* C1 as stated: a 638-byte buffer with a known TEE type decodes successfully
\* and every field equals the input at its offset.
C1_Original638 ==
    (Done /\ Len(data) = 638 /\ TeeKnown) =>
        (outcome = "ok" /\ FieldsMatch(quote, data))

\* C1 (amended): for every buffer of exactly 702 bytes whose TEE-type field is
\* 0x00000000 or 0x00000081, parse_quote succeeds and every field of the Quote
\* equals the little-endian integer or the verbatim slice of the input at the
\* field's offset in the no-padding layout.
C1_DecodeExact702 ==
    (Done /\ Len(data) = 702 /\ TeeKnown) =>
        (outcome = "ok" /\ FieldsMatch(quote, data))

C1_Witness ==
    /\ outcome = "ok"
    /\ Len(data) = 702
    /\ quote.header.tee_type = "TDX"
    /\ quote.header.version # quote.header.attestation_key_type

\* C2 as stated: every buffer shorter than 638 bytes fails with the truncation
\* failure, returns no Quote and reads nothing outside the buffer.
C2_OriginalAlwaysTruncated ==
    (Done /\ Len(data) < 638) =>
        (outcome = "UnexpectedEof" /\ quote = NoQuote /\ ReadsInBounds)

\* C2 (amended): every buffer shorter than 638 bytes fails: no Quote is
\* returned and no byte at or beyond the buffer length is read; the failure is
\* the truncation failure, except that a buffer of at least 8 bytes whose
\* TEE-type field is neither 0x00000000 nor 0x00000081 fails with the
\* unrecognized-TEE-type failure.
C2_ShortBufferFails ==
    (Len(data) < 638) =>
        /\ quote = NoQuote
        /\ outcome # "ok"
        /\ ReadsInBounds
        /\ Done => outcome = (IF TeeUnknown THEN "InvalidTeeType" ELSE "UnexpectedEof")

C2_Witness ==
    /\ Len(data) = 637
    /\ outcome = "UnexpectedEof"
    /\ Len(reads) = 23
    /\ reads[23].offset + reads[23].width = 574

\* C3: a buffer whose TEE-type field is neither 0x00000000 nor 0x00000081
\* fails with the unrecognized-TEE-type failure right after the TEE-type read:
\* nothing after tee_type is read, the cursor stays at or below 8 and no Quote
\* is returned.
C3_UnknownTeeStops ==
    TeeUnknown =>
        /\ quote = NoQuote
        /\ pos <= 8
        /\ Len(reads) <= 3
        /\ \A i \in 1..Len(reads) :
               reads[i].name \in {"version", "attestation_key_type", "tee_type"}
        /\ Done => (outcome = "InvalidTeeType" /\ pos = 8 /\ Len(reads) = 3)

C3_Witness ==
    /\ TeeUnknown
    /\ Len(data) >= 702
    /\ outcome = "InvalidTeeType"

\* The buffers that agree with d on the first n bytes: d cut to n bytes, d
\* with every later byte changed, d with one more byte.
TrailVariants(d, n) ==
    { SubSeq(d, 1, n),
      [i \in 1..Len(d) |-> IF i > n THEN (d[i] + 1) % 256 ELSE d[i]],
      d \o <<171>> }

\* C4 as stated: a successful parse consumes exactly 638 bytes and reads
\* nothing at offset 638 or beyond.
C4_Original638 ==
    (outcome = "ok") =>
        /\ pos = 638
        /\ \A i \in 1..Len(reads) : reads[i].offset + reads[i].width <= 638

\* C4 (amended): a successful parse consumes exactly 702 bytes from offset 0:
\* 48 for the header, 6 for the body type and size, 648 for the seventeen
\* TDQuoteBody fields; bytes at offset 702 and beyond are never read, so two
\* buffers that agree on their first 702 bytes decode to the same Quote.
C4_Consumes702 ==
    (outcome = "ok") =>
        /\ pos = 702
        /\ Len(reads) = 26
        /\ reads[1].offset = 0
        /\ reads[7].offset + reads[7].width = 48
        /\ reads[9].offset + reads[9].width = 48 + 6
        /\ reads[26].offset + reads[26].width = 48 + 6 + 648
        /\ \A i \in 1..Len(reads) : reads[i].offset + reads[i].width <= 702
        /\ \A alt \in TrailVariants(data, 702) : parse_quote(alt).quote = quote

C4_Witness ==
    /\ outcome = "ok"
    /\ Len(data) > 702
    /\ pos = 702

\* The buffers that differ from d at most in the bytes at offsets 48..53.
TypeSizeVariants(d) ==
    { WithBytes(d, 48, b) : b \in { <<0, 0, 0, 0, 0, 0>>,
                                    <<2, 0, 136, 2, 0, 0>>,
                                    <<3, 0, 72, 2, 0, 0>>,
                                    <<255, 255, 255, 255, 255, 255>> } }

\* C7: two buffers of equal length that differ only in the bytes at offsets
\* 48..53 have the same outcome, read the same number of bytes and return
\* records equal in every field except td_quote_body_type and size, which are
\* the little-endian u16 at offset 48 and u32 at offset 50.
C7_TypeAndSizeAdvisory ==
    Done =>
        \A alt \in TypeSizeVariants(data) :
            LET r == parse_quote(alt)
            IN  /\ r.outcome = outcome
                /\ r.pos = pos
                /\ r.reads = reads
                /\ (outcome = "ok") =>
                       /\ r.quote.header = quote.header
                       /\ r.quote.body.td_quote_body = quote.body.td_quote_body
                       /\ r.quote.body.td_quote_body_type = alt[49] + 256 * alt[50]
                       /\ quote.body.td_quote_body_type = data[49] + 256 * data[50]
                       /\ \A k \in 0..31 :
                              /\ r.quote.body.size[k] = Bit(Slice(alt, 50, 4), k)
                              /\ quote.body.size[k] = Bit(Slice(data, 50, 4), k)

C7_Witness ==
    /\ outcome = "ok"
    /\ \E alt \in TypeSizeVariants(data) :
           parse_quote(alt).quote.body.size # quote.body.size

\* The order of the reads.
ReadOrder ==
    << "version", "attestation_key_type", "tee_type", "reserved1", "reserved2",
       "qe_vendor_id", "user_data", "td_quote_body_type", "size",
       "tee_tcb_svn", "mrseam", "mrsignerseam", "seamattributes", "tdattributes",
       "xfam", "mrtd", "mrconfigid", "mrowner", "mrownerconfig",
       "rtmr0", "rtmr1", "rtmr2", "rtmr3", "reportdata", "tee_tcb_svn_2",
       "mrservicetd" >>

\* The reads so far are a prefix of ReadOrder, the first at offset 0, each
\* starting where the previous one ended, the cursor at the end of the last
\* (at the end of the buffer once a read has failed).
ReadsChained ==
    /\ Len(reads) <= Len(ReadOrder)
    /\ \A i \in 1..Len(reads) :
           /\ reads[i].name = ReadOrder[i]
           /\ reads[i].offset = (IF i = 1 THEN 0
                                 ELSE reads[i - 1].offset + reads[i - 1].width)
    /\ pos = (IF outcome = "UnexpectedEof" THEN Len(data)
              ELSE IF reads = <<>> THEN 0
              ELSE reads[Len(reads)].offset + reads[Len(reads)].width)

\* C8: the cursor starts at 0 and never decreases, each read starts where the
\* previous one ended, and the reads occur in the order version,
\* attestation_key_type, tee_type, reserved1, reserved2, qe_vendor_id,
\* user_data, td_quote_body_type, size, then the seventeen TDQuoteBody fields.
C8_ForwardOnlyCursor ==
    /\ []ReadsChained
    /\ [][/\ pos' >= pos
          /\ Len(reads') >= Len(reads)
          /\ SubSeq(reads', 1, Len(reads)) = reads]_vars

C8_Witness ==
    /\ outcome = "ok"
    /\ Len(reads) = 26
    /\ reads[26].name = "mrservicetd"

\* The sum of the widths declared in struct TDQuoteBody.
RECURSIVE SumDeclared(_)
SumDeclared(names) ==
    IF names = {} THEN 0
    ELSE LET n == CHOOSE x \in names : TRUE
         IN  TDQuoteBody[n] + SumDeclared(names \ {n})

\* C10: the outcome is decided by the buffer length and the TEE-type field
\* alone: shorter than 8 bytes, a read failure; otherwise an unknown TEE type,
\* the "Invalid TEE type" failure; otherwise a read failure if the buffer is
\* shorter than 48 + 6 + the seventeen declared body widths, and success if
\* it is at least that long.
C10_OutcomePrecedence ==
    Done =>
        outcome = (IF Len(data) < 8 THEN "UnexpectedEof"
                   ELSE IF TeeUnknown THEN "InvalidTeeType"
                   ELSE IF Len(data) < 48 + 6 + SumDeclared(DOMAIN TDQuoteBody)
                        THEN "UnexpectedEof"
                   ELSE "ok")

C10_Witness ==
    /\ TeeKnown
    /\ Len(data) = 48 + 6 + SumDeclared(DOMAIN TDQuoteBody)
    /\ outcome = "ok"
====
